---- MODULE Spec2Model ----
(***************************************************************************)
(* Model of giftless' authorization model (giftless/auth/identity.py) and  *)
(* of the basic streaming transfer adapter and its views                   *)
(* (giftless/transfer/basic_streaming.py).                                 *)
(***************************************************************************)
EXTENDS Integers, Sequences, FiniteSets, TLC

(* ---------------------------------------------------------------------- *)
(* Values                                                                  *)
(* ---------------------------------------------------------------------- *)

\* Python's None: the wildcard key of the permission tree, and an omitted argument.
NONE == "<None>"

\* class Permission(Enum)
Permission == {"read", "read-meta", "write"}

\* Arguments of the explored allow calls: each may be omitted (None, the wildcard).
Organizations == {NONE, "acme"}
Repos == {NONE, "widgets"}
GrantOids == {NONE, "x"}

\* Arguments of the explored is_authorized calls: organization and repo are
\* str, oid may be omitted; no grant is ever made at oid "y".
QueryOrganizations == {"acme", "other"}
QueryRepos == {"widgets"}
Oids == {NONE, "x", "y"}

\* The `permissions` argument of allow: omitted (None) or a set of Permission.
Omitted == [given |-> FALSE, perms |-> {}]
Given(ps) == [given |-> TRUE, perms |-> ps]
PermissionArgs == {Omitted, Given({}), Given({"read"}), Given({"read", "write"})}

\* Number of allow calls explored on one identity.
MaxAllows == 2

VARIABLES
    allowed,     \* DefaultIdentity._allowed: organization -> repo -> oid -> set of Permission
    nAllows,     \* number of allow calls made so far
    lastAllow,   \* the most recent allow call, with the tree it found
    last,        \* the most recent call on the identity, with the tree it found and its result
    grantsOnly   \* _allowed of a second identity that receives the same allow calls
                 \* and is never queried

varsIdentity == <<allowed, nAllows, lastAllow, last, grantsOnly>>

VARIABLES
    storage,          \* the storage backend: <<prefix, oid>> -> size of the stored object
    action_lifetime,  \* BasicStreamingTransferAdapter.action_lifetime
    outcome           \* the most recent adapter or view call: its arguments, the storage
                      \* it found and what it returned or raised

varsTransfer == <<storage, action_lifetime, outcome>>

VARIABLES
    declared,    \* the size the clients declare for the object in their batch requests
    client,      \* one client following the protocol: its phase of the state model,
                 \* the size its last PUT stored, and what happened around it
    clients      \* two concurrent clients: for each, the step it is at and what its
                 \* calls returned

varsClients == <<declared, client, clients>>

(* ---------------------------------------------------------------------- *)
(* defaultdict                                                             *)
(* ---------------------------------------------------------------------- *)

\* A dict with no keys.
EmptyDict == [k \in {} |-> {}]

\* defaultdict.__getitem__ on the outer two levels: a missing key is inserted
\* with a new empty defaultdict.
Missing(d, k) == IF k \in DOMAIN d THEN d ELSE (k :> EmptyDict) @@ d

\* The tree after evaluating self._allowed[organization][repo] (both levels vivified).
TouchRepo(tree, organization, repo) ==
    LET t1 == Missing(tree, organization)
    IN  [t1 EXCEPT ![organization] = Missing(@, repo)]

\* The tree after evaluating self._allowed[organization][repo][oid]: the leaf
\* factory is set, so a missing oid is inserted with an empty set.
TouchOid(tree, organization, repo, oid) ==
    LET t2 == TouchRepo(tree, organization, repo)
    IN  IF oid \in DOMAIN t2[organization][repo]
        THEN t2
        ELSE [t2 EXCEPT ![organization][repo] = (oid :> {}) @@ @]

\* The coordinate (organization, repo, oid) has an entry.
Known(tree, organization, repo, oid) ==
    /\ organization \in DOMAIN tree
    /\ repo \in DOMAIN tree[organization]
    /\ oid \in DOMAIN tree[organization][repo]

\* The set held at a coordinate, the empty set where no entry exists.
Held(tree, organization, repo, oid) ==
    IF Known(tree, organization, repo, oid) THEN tree[organization][repo][oid] ELSE {}

(* ---------------------------------------------------------------------- *)
(* DefaultIdentity                                                         *)
(* ---------------------------------------------------------------------- *)

\* allow with the union replaced by an assignment of the given set.
allow_replacing(tree, organization, repo, permissions, oid) ==
    LET t2 == TouchRepo(tree, organization, repo)
    IN  [t2 EXCEPT ![organization][repo] = (oid :> permissions.perms) @@ @]

\* allow that, with permissions omitted, only makes the coordinate known.
allow_keeping(tree, organization, repo, permissions, oid) ==
    LET t3 == TouchOid(tree, organization, repo, oid)
    IN  [t3 EXCEPT ![organization][repo][oid] = @ \cup permissions.perms]

\* DefaultIdentity.allow: the tree after the call.
allow(tree, organization, repo, permissions, oid) ==
    IF ~permissions.given
    THEN LET t2 == TouchRepo(tree, organization, repo)
         IN  [t2 EXCEPT ![organization][repo] = (oid :> {}) @@ @]
    ELSE LET t3 == TouchOid(tree, organization, repo, oid)
         IN  [t3 EXCEPT ![organization][repo][oid] = @ \cup permissions.perms]

\* is_authorized whose global-wildcard branch looks up the wildcard oid.
is_authorized_global_wildcard_oid(tree, organization, repo, permission, oid) ==
    IF organization \in DOMAIN tree
    THEN IF repo \in DOMAIN tree[organization]
         THEN IF oid \in DOMAIN tree[organization][repo]
              THEN [result |-> permission \in tree[organization][repo][oid], tree |-> tree]
              ELSE IF NONE \in DOMAIN tree[organization][repo]
                   THEN [result |-> permission \in tree[organization][repo][NONE], tree |-> tree]
                   ELSE [result |-> FALSE, tree |-> tree]
         ELSE IF NONE \in DOMAIN tree[organization]
              THEN LET t == TouchOid(tree, organization, NONE, NONE)
                   IN  [result |-> permission \in t[organization][NONE][NONE], tree |-> t]
              ELSE [result |-> FALSE, tree |-> tree]
    ELSE IF NONE \in DOMAIN tree /\ NONE \in DOMAIN tree[NONE]
         THEN LET t == TouchOid(tree, NONE, NONE, NONE)
              IN  [result |-> permission \in t[NONE][NONE][NONE], tree |-> t]
         ELSE [result |-> FALSE, tree |-> tree]

\* is_authorized whose global-wildcard branch reads the requested oid through
\* the defaultdict and answers from the wildcard oid when it had no entry.
is_authorized_global_fallback(tree, organization, repo, permission, oid) ==
    IF organization \in DOMAIN tree
    THEN IF repo \in DOMAIN tree[organization]
         THEN IF oid \in DOMAIN tree[organization][repo]
              THEN [result |-> permission \in tree[organization][repo][oid], tree |-> tree]
              ELSE IF NONE \in DOMAIN tree[organization][repo]
                   THEN [result |-> permission \in tree[organization][repo][NONE], tree |-> tree]
                   ELSE [result |-> FALSE, tree |-> tree]
         ELSE IF NONE \in DOMAIN tree[organization]
              THEN LET t == TouchOid(tree, organization, NONE, NONE)
                   IN  [result |-> permission \in t[organization][NONE][NONE], tree |-> t]
              ELSE [result |-> FALSE, tree |-> tree]
    ELSE IF NONE \in DOMAIN tree /\ NONE \in DOMAIN tree[NONE]
         THEN LET t == TouchOid(tree, NONE, NONE, oid)
              IN  IF oid \in DOMAIN tree[NONE][NONE]
                  THEN [result |-> permission \in tree[NONE][NONE][oid], tree |-> t]
                  ELSE [result |-> permission \in Held(tree, NONE, NONE, NONE), tree |-> t]
         ELSE [result |-> FALSE, tree |-> tree]

\* is_authorized that tests the wildcard oid before the exact oid.
is_authorized_wildcard_first(tree, organization, repo, permission, oid) ==
    IF organization \in DOMAIN tree
    THEN IF repo \in DOMAIN tree[organization]
         THEN IF NONE \in DOMAIN tree[organization][repo]
              THEN [result |-> permission \in tree[organization][repo][NONE], tree |-> tree]
              ELSE IF oid \in DOMAIN tree[organization][repo]
                   THEN [result |-> permission \in tree[organization][repo][oid], tree |-> tree]
                   ELSE [result |-> FALSE, tree |-> tree]
         ELSE IF NONE \in DOMAIN tree[organization]
              THEN LET t == TouchOid(tree, organization, NONE, NONE)
                   IN  [result |-> permission \in t[organization][NONE][NONE], tree |-> t]
              ELSE [result |-> FALSE, tree |-> tree]
    ELSE IF NONE \in DOMAIN tree /\ NONE \in DOMAIN tree[NONE]
         THEN LET t == TouchOid(tree, NONE, NONE, oid)
              IN  [result |-> permission \in t[NONE][NONE][oid], tree |-> t]
         ELSE [result |-> FALSE, tree |-> tree]

\* DefaultIdentity.is_authorized: the returned value and the tree after the call.
is_authorized(tree, organization, repo, permission, oid) ==
    IF organization \in DOMAIN tree
    THEN IF repo \in DOMAIN tree[organization]
         THEN IF oid \in DOMAIN tree[organization][repo]
              THEN [result |-> permission \in tree[organization][repo][oid], tree |-> tree]
              ELSE IF NONE \in DOMAIN tree[organization][repo]
                   THEN [result |-> permission \in tree[organization][repo][NONE], tree |-> tree]
                   ELSE [result |-> FALSE, tree |-> tree]
         ELSE IF NONE \in DOMAIN tree[organization]
              THEN LET t == TouchOid(tree, organization, NONE, NONE)
                   IN  [result |-> permission \in t[organization][NONE][NONE], tree |-> t]
              ELSE [result |-> FALSE, tree |-> tree]
    ELSE IF NONE \in DOMAIN tree /\ NONE \in DOMAIN tree[NONE]
         THEN LET t == TouchOid(tree, NONE, NONE, oid)
              IN  [result |-> permission \in t[NONE][NONE][oid], tree |-> t]
         ELSE [result |-> FALSE, tree |-> tree]

NoCall == [op |-> "none"]

\* No client has started.
NoClients ==
    /\ declared = NONE
    /\ client = NoCall
    /\ clients = NoCall

InitIdentity ==
    /\ allowed = EmptyDict
    /\ nAllows = 0
    /\ lastAllow = NoCall
    /\ last = NoCall
    /\ grantsOnly = EmptyDict

Allow ==
    /\ nAllows < MaxAllows
    /\ \E organization \in Organizations, repo \in Repos, oid \in GrantOids, permissions \in PermissionArgs :
        LET call == [op |-> "allow", organization |-> organization, repo |-> repo,
                     permissions |-> permissions, oid |-> oid, before |-> allowed]
        IN  /\ allowed' = allow(allowed, organization, repo, permissions, oid)
            /\ grantsOnly' = allow(grantsOnly, organization, repo, permissions, oid)
            /\ lastAllow' = call
            /\ last' = call
    /\ nAllows' = nAllows + 1
    /\ UNCHANGED <<varsTransfer, varsClients>>

IsAuthorized ==
    /\ \E organization \in QueryOrganizations, repo \in QueryRepos, oid \in Oids,
          permission \in Permission :
        LET r == is_authorized(allowed, organization, repo, permission, oid)
        IN  /\ allowed' = r.tree
            /\ last' = [op |-> "is_authorized", organization |-> organization, repo |-> repo,
                        permission |-> permission, oid |-> oid, before |-> allowed,
                        result |-> r.result]
    /\ UNCHANGED <<nAllows, lastAllow, grantsOnly>>
    /\ UNCHANGED <<varsTransfer, varsClients>>

(* ---------------------------------------------------------------------- *)
(* Properties of DefaultIdentity                                           *)
(* ---------------------------------------------------------------------- *)

Coordinates == (Organizations \cup QueryOrganizations) \X (Repos \cup QueryRepos) \X Oids

\* The three-branch lookup of the permission model, on a tree that is only read.
ReferenceLookup(tree, organization, repo, permission, oid) ==
    CASE organization \notin DOMAIN tree ->
            /\ NONE \in DOMAIN tree
            /\ NONE \in DOMAIN tree[NONE]
            /\ permission \in Held(tree, NONE, NONE, oid)
      [] organization \in DOMAIN tree /\ repo \notin DOMAIN tree[organization] ->
            /\ NONE \in DOMAIN tree[organization]
            /\ permission \in Held(tree, organization, NONE, NONE)
      [] OTHER ->
            IF Known(tree, organization, repo, oid)
            THEN permission \in tree[organization][repo][oid]
            ELSE /\ Known(tree, organization, repo, NONE)
                 /\ permission \in tree[organization][repo][NONE]

\* C1: every is_authorized call returns what the three-branch reference lookup
\* gives on the tree the call found: global wildcard keyed by the requested oid
\* when the organization is unknown, organization-level wildcard when only the
\* repo is unknown, exact oid and then wildcard oid when both are known.
C1_ReferenceLookup ==
    last.op = "is_authorized" =>
        last.result = ReferenceLookup(last.before, last.organization, last.repo,
                                      last.permission, last.oid)

\* An unknown organization was authorized through the global wildcard at the requested oid.
C1_Witness ==
    /\ last.op = "is_authorized"
    /\ last.organization \notin DOMAIN last.before
    /\ last.oid # NONE
    /\ last.result

\* The last call is a query at the coordinate of the most recent allow call
\* (only queries were made since that call).
QueryAtLastGrant ==
    /\ last.op = "is_authorized"
    /\ lastAllow.op = "allow"
    /\ lastAllow.organization = last.organization
    /\ lastAllow.repo = last.repo
    /\ lastAllow.oid = last.oid

\* C5 as claimed: after any allow call every coordinate is still known and
\* holds a superset of what it held before.
C5_GrantsOnlyGrow ==
    last.op = "allow" =>
        \A c \in Coordinates :
            /\ Known(last.before, c[1], c[2], c[3]) => Known(allowed, c[1], c[2], c[3])
            /\ Held(last.before, c[1], c[2], c[3]) \subseteq Held(allowed, c[1], c[2], c[3])

\* C5 amended: an allow call never removes a coordinate, and leaves every
\* coordinate with a superset of what it held, except that a call with
\* permissions omitted leaves its own coordinate with the empty set.
C5_GrowUnlessOmitted ==
    last.op = "allow" =>
        \A c \in Coordinates :
            /\ Known(last.before, c[1], c[2], c[3]) => Known(allowed, c[1], c[2], c[3])
            /\ IF ~last.permissions.given /\ c = <<last.organization, last.repo, last.oid>>
               THEN Held(allowed, c[1], c[2], c[3]) = {}
               ELSE Held(last.before, c[1], c[2], c[3]) \subseteq Held(allowed, c[1], c[2], c[3])

\* An allow call added new permissions to a coordinate that already held some.
C5_Witness ==
    /\ last.op = "allow"
    /\ last.permissions.given
    /\ Held(last.before, last.organization, last.repo, last.oid) # {}
    /\ ~(last.permissions.perms \subseteq Held(last.before, last.organization, last.repo, last.oid))

\* C6 as claimed: is_authorized leaves the tree (known coordinates and the set
\* at each) exactly as it found it.
C6_IsAuthorizedPure ==
    last.op = "is_authorized" => allowed = last.before

\* C7 as claimed: a query that follows allow(org, repo, perms, oid) with
\* non-empty perms, at the same coordinate, is true exactly for the members of perms.
C7_ExactlyGranted ==
    (QueryAtLastGrant /\ lastAllow.permissions.given /\ lastAllow.permissions.perms # {}) =>
        last.result = (last.permission \in lastAllow.permissions.perms)

\* C7 amended: such a query is true for every member of perms, and for any
\* other permission it is true exactly when the coordinate already held it
\* before the allow call.
C7_GrantedOrHeld ==
    (QueryAtLastGrant /\ lastAllow.permissions.given /\ lastAllow.permissions.perms # {}) =>
        last.result = (last.permission \in lastAllow.permissions.perms
                          \cup Held(lastAllow.before, last.organization, last.repo, last.oid))

\* A permission just granted at an exact oid is authorized although the
\* repository's wildcard oid does not hold it.
C7_Witness ==
    /\ QueryAtLastGrant
    /\ lastAllow.permissions.given
    /\ last.permission \in lastAllow.permissions.perms
    /\ last.oid # NONE
    /\ Known(last.before, last.organization, last.repo, NONE)
    /\ last.permission \notin last.before[last.organization][last.repo][NONE]
    /\ last.result

\* The last call is a query, in the organization and repo of the most recent
\* allow call, about an oid that has no entry of its own.
QueryAtUnknownOid ==
    /\ last.op = "is_authorized"
    /\ lastAllow.op = "allow"
    /\ lastAllow.organization = last.organization
    /\ lastAllow.repo = last.repo
    /\ lastAllow.oid # last.oid
    /\ ~Known(last.before, last.organization, last.repo, last.oid)

\* What C8 says of an oid without an entry: the query answers from the
\* repository's wildcard-oid set when that entry exists.
UnknownOidUsesWildcard ==
    (QueryAtUnknownOid /\ Known(last.before, last.organization, last.repo, NONE)) =>
        last.result = (last.permission \in last.before[last.organization][last.repo][NONE])

\* C8 as claimed: after allow(org, repo, oid=X) with permissions omitted or
\* empty, every query at X is false whatever X held before, and a query at an
\* oid without an entry answers from the repository's wildcard oid.
C8_KnownButEmpty ==
    /\ (QueryAtLastGrant /\ lastAllow.permissions.perms = {}) => ~last.result
    /\ UnknownOidUsesWildcard

\* C8 amended: with permissions omitted every query at X is false whatever X
\* held before; with an empty set passed a query at X is true exactly for what
\* X already held before the call; an oid without an entry answers from the
\* repository's wildcard oid.
C8_EmptyKeepsHeld ==
    /\ (QueryAtLastGrant /\ ~lastAllow.permissions.given) => ~last.result
    /\ (QueryAtLastGrant /\ lastAllow.permissions.given /\ lastAllow.permissions.perms = {}) =>
            last.result = (last.permission
                              \in Held(lastAllow.before, last.organization, last.repo, last.oid))
    /\ UnknownOidUsesWildcard

\* allow with permissions omitted emptied an oid that held the queried
\* permission, and the query at that oid was refused.
C8_Witness ==
    /\ QueryAtLastGrant
    /\ ~lastAllow.permissions.given
    /\ last.permission \in Held(lastAllow.before, last.organization, last.repo, last.oid)
    /\ ~last.result

\* C17: every is_authorized call (organization and repo are strings) returns
\* what the same call returns on the identity that received the same allow
\* calls, in the same order, and no query.
C17_QueriesDoNotInterfere ==
    last.op = "is_authorized" =>
        last.result = is_authorized(grantsOnly, last.organization, last.repo,
                                    last.permission, last.oid).result

\* A query was authorized on a tree that earlier queries had extended.
C17_Witness ==
    /\ last.op = "is_authorized"
    /\ last.before # grantsOnly
    /\ last.result

\* Every query that is_authorized may be asked, wildcard markers included.
Queries == Coordinates \X Permission

Answer(tree, q) == is_authorized(tree, q[1][1], q[1][2], q[2], q[1][3]).result

\* No query answered true on the tree the last call found is answered false
\* on the tree it left.
NoAnswerRevoked == \A q \in Queries : Answer(last.before, q) => Answer(allowed, q)

\* C18 as claimed: an allow call with a non-empty permission set turns no
\* answer of is_authorized from true to false.
C18_AllowMonotone ==
    (last.op = "allow" /\ last.permissions.given /\ last.permissions.perms # {}) =>
        NoAnswerRevoked

\* C18 amended: it turns no answer from true to false when its coordinate
\* already had an entry.
C18_AllowMonotoneAtKnown ==
    (/\ last.op = "allow"
     /\ last.permissions.given
     /\ last.permissions.perms # {}
     /\ Known(last.before, last.organization, last.repo, last.oid)) => NoAnswerRevoked

\* An allow call added permissions at a coordinate that already granted some
\* query, and that query is still granted.
C18_Witness ==
    /\ last.op = "allow"
    /\ last.permissions.given
    /\ Known(last.before, last.organization, last.repo, last.oid)
    /\ ~(last.permissions.perms \subseteq last.before[last.organization][last.repo][last.oid])
    /\ \E q \in Queries : Answer(last.before, q) /\ Answer(allowed, q)

(* ---------------------------------------------------------------------- *)
(* Transfer: values                                                        *)
(* ---------------------------------------------------------------------- *)

\* Largest object size explored.
MaxSize == 2

Sizes == 1..MaxSize

\* Route parameters of the requests explored (no slash, not empty).
TransferOrganizations == {"acme"}
TransferRepos == {"widgets"}
TransferOids == {"x", "y"}

\* Configured action lifetimes explored.
ActionLifetimes == {60, 900}

\* PreAuthorizingTransferAdapter.VERIFY_LIFETIME
VERIFY_LIFETIME == 43200

\* posixpath.join(organization, repo) and f'{organization}/{repo}': the same
\* storage namespace for route parameters.
Prefix(organization, repo) == <<organization, repo>>

\* A dict literal with no keys.
EmptyResponse == [k \in {} |-> {}]

(* ---------------------------------------------------------------------- *)
(* Collaborators                                                           *)
(* ---------------------------------------------------------------------- *)

\* storage.exists(prefix, oid)
exists(st, prefix, oid) == <<prefix, oid>> \in DOMAIN st

\* storage.get_size(prefix, oid): the size, or ObjectNotFound raised.
get_size(st, prefix, oid) ==
    IF <<prefix, oid>> \in DOMAIN st
    THEN [raised |-> FALSE, value |-> st[<<prefix, oid>>]]
    ELSE [raised |-> TRUE, exception |-> [type |-> "ObjectNotFound", message |-> "Object not found"]]

\* storage.verify_object(prefix, oid, size)
verify_object(st, prefix, oid, size) ==
    /\ <<prefix, oid>> \in DOMAIN st
    /\ st[<<prefix, oid>>] = size

\* storage.put(prefix, oid, data_stream): the storage after an atomic replace.
put(st, prefix, oid, data_length) ==
    [k \in DOMAIN st \cup {<<prefix, oid>>} |->
        IF k = <<prefix, oid>> THEN data_length ELSE st[k]]

\* storage.get(prefix, oid) and storage.get_mime_type(prefix, oid)
get(st, prefix, oid) == [stream_of |-> <<prefix, oid>>, length |-> st[<<prefix, oid>>]]
get_mime_type(st, prefix, oid) == <<"mime-type", prefix, oid>>

\* What storage.get_download_action(prefix, oid, size, lifetime, extra) may do:
\* return a response fragment with a download descriptor, return one whose
\* descriptor is empty, or fail with a StorageError.
DownloadActionOutcomes(prefix, oid, size, lifetime) ==
    { [raised |-> FALSE,
       value |-> [actions |-> [download |-> [href |-> <<"storage-url", prefix, oid>>,
                                             header |-> EmptyResponse,
                                             expires_in |-> lifetime]]]],
      [raised |-> FALSE, value |-> [actions |-> [download |-> EmptyResponse]]],
      [raised |-> TRUE, exception |-> [type |-> "StorageError", message |-> "Backend failure"]] }

\* The exception classes of giftless.storage.exc that derive from StorageError.
IsStorageError(e) == e.type \in {"StorageError", "ObjectNotFound", "InvalidObject"}

\* StorageError.as_dict()
as_dict(e) == [code |-> e.type, message |-> e.message]

\* ObjectsView.get_storage_url(operation, organization, repo, oid): url_for of the view.
get_storage_url(operation, organization, repo, oid) ==
    <<"ObjectsView:" \o operation, organization, repo, oid>>

\* VerifyView.get_verify_url(organization, repo, oid=None)
get_verify_url(organization, repo, oid) ==
    <<"VerifyView:verify", organization, repo, oid>>

\* PreAuthorizingTransferAdapter._preauth_headers: the header carries what was
\* asked of the token service; lifetime is <<>> when the argument is omitted.
preauth_headers(organization, repo, actions, oid, lifetime) ==
    [Authorization |-> [organization |-> organization, repo |-> repo,
                        actions |-> actions, oid |-> oid, lifetime |-> lifetime]]

(* ---------------------------------------------------------------------- *)
(* BasicStreamingTransferAdapter                                           *)
(* ---------------------------------------------------------------------- *)

\* The two actions and the flag that upload adds to its response.
UploadActions(lifetime, organization, repo, oid) ==
    [actions |->
        [upload |-> [href |-> get_storage_url("put", organization, repo, oid),
                     header |-> preauth_headers(organization, repo, {"write"}, oid, <<>>),
                     expires_in |-> lifetime],
         verify |-> [href |-> get_verify_url(organization, repo, NONE),
                     header |-> preauth_headers(organization, repo, {"verify"}, oid,
                                                <<VERIFY_LIFETIME>>),
                     expires_in |-> VERIFY_LIFETIME]],
     authenticated |-> TRUE]

\* upload that asks for a transfer only when the object exists with another size.
upload_needs_existing(st, lifetime, organization, repo, oid, size) ==
    LET prefix == Prefix(organization, repo)
        response == [oid |-> oid, size |-> size]
    IN  IF exists(st, prefix, oid) /\ get_size(st, prefix, oid).value # size
        THEN [raised |-> FALSE, response |-> UploadActions(lifetime, organization, repo, oid) @@ response]
        ELSE [raised |-> FALSE, response |-> response]

\* BasicStreamingTransferAdapter.upload
upload(st, lifetime, organization, repo, oid, size) ==
    LET prefix == Prefix(organization, repo)
        response == [oid |-> oid, size |-> size]
    IN  IF ~exists(st, prefix, oid)
        THEN [raised |-> FALSE, response |-> UploadActions(lifetime, organization, repo, oid) @@ response]
        ELSE LET stored == get_size(st, prefix, oid)
             IN  IF stored.raised
                 THEN [raised |-> TRUE, exception |-> stored.exception]
                 ELSE IF stored.value # size
                      THEN [raised |-> FALSE,
                            response |-> UploadActions(lifetime, organization, repo, oid) @@ response]
                      ELSE [raised |-> FALSE, response |-> response]

\* BasicStreamingTransferAdapter._check_object: what it raises, if anything.
check_object(st, prefix, oid, size) ==
    LET stored == get_size(st, prefix, oid)
    IN  IF stored.raised
        THEN stored
        ELSE IF stored.value # size
             THEN [raised |-> TRUE,
                   exception |-> [type |-> "InvalidObject", message |-> "Object size does not match"]]
             ELSE [raised |-> FALSE]

\* response.update(fragment): the fragment's keys override the response's.
update(response, fragment) == fragment @@ response

\* The tail of download: authenticated is set when actions.download is truthy.
authenticate(response) ==
    IF /\ "actions" \in DOMAIN response
       /\ "download" \in DOMAIN response.actions
       /\ response.actions.download # EmptyResponse
    THEN [authenticated |-> TRUE] @@ response
    ELSE response

\* What the try block of download leaves: the response, or an exception that
\* the except clause does not catch.
Caught(response, e) ==
    IF IsStorageError(e)
    THEN [raised |-> FALSE, response |-> authenticate([error |-> as_dict(e)] @@ response)]
    ELSE [raised |-> TRUE, exception |-> e]

\* download whose except clause catches InvalidObject only.
download_catching_invalid_only(st, lifetime, organization, repo, oid, size, action) ==
    LET prefix == Prefix(organization, repo)
        response == [oid |-> oid, size |-> size]
        checked == check_object(st, prefix, oid, size)
    IN  IF checked.raised
        THEN IF checked.exception.type = "InvalidObject"
             THEN Caught(response, checked.exception)
             ELSE [raised |-> TRUE, exception |-> checked.exception]
        ELSE IF action.raised
             THEN Caught(response, action.exception)
             ELSE [raised |-> FALSE, response |-> authenticate(update(response, action.value))]

\* download that asks for the download action before it checks the object.
download_action_first(st, lifetime, organization, repo, oid, size, action) ==
    LET prefix == Prefix(organization, repo)
        response == [oid |-> oid, size |-> size]
        checked == check_object(st, prefix, oid, size)
    IN  IF action.raised
        THEN Caught(response, action.exception)
        ELSE IF checked.raised
             THEN Caught(update(response, action.value), checked.exception)
             ELSE [raised |-> FALSE, response |-> authenticate(update(response, action.value))]

\* download without the final authenticated step.
download_unauthenticated(st, lifetime, organization, repo, oid, size, action) ==
    LET prefix == Prefix(organization, repo)
        response == [oid |-> oid, size |-> size]
        checked == check_object(st, prefix, oid, size)
    IN  IF checked.raised
        THEN Caught(response, checked.exception)
        ELSE IF action.raised
             THEN Caught(response, action.exception)
             ELSE [raised |-> FALSE, response |-> update(response, action.value)]

\* BasicStreamingTransferAdapter.download; action is what get_download_action
\* does when it is reached.
download(st, lifetime, organization, repo, oid, size, action) ==
    LET prefix == Prefix(organization, repo)
        response == [oid |-> oid, size |-> size]
        checked == check_object(st, prefix, oid, size)
    IN  IF checked.raised
        THEN Caught(response, checked.exception)
        ELSE IF action.raised
             THEN Caught(response, action.exception)
             ELSE [raised |-> FALSE, response |-> authenticate(update(response, action.value))]

(* ---------------------------------------------------------------------- *)
(* Views                                                                   *)
(* ---------------------------------------------------------------------- *)

\* What the request's identity may hold on the requested object: the set of
\* permissions for which its is_authorized answers true.
GrantedSets == SUBSET Permission

\* BaseView._check_authorization: raises unless the request's identity is
\* authorized for the permission on this object.
check_authorization(granted, permission) ==
    IF permission \in granted
    THEN [raised |-> FALSE]
    ELSE [raised |-> TRUE,
          exception |-> [type |-> "Forbidden",
                         message |-> "You are not authorized to perform this action"]]

\* An entry of the record of what a view called, in order.
Called(name, argument) == [call |-> name, with |-> argument]

\* flask.Response(status=200) with no body.
EmptyOk == [status |-> 200, body |-> <<>>, headers |-> EmptyResponse]

\* verify that succeeds when verify_object fails.
verify_inverted(st, organization, repo, payload, granted) ==
    LET auth == check_authorization(granted, "read-meta")
        prefix == Prefix(organization, repo)
        checked == <<Called("_check_authorization", "read-meta")>>
    IN  IF auth.raised
        THEN [raised |-> TRUE, exception |-> auth.exception, calls |-> checked, storage |-> st]
        ELSE IF verify_object(st, prefix, payload.oid, payload.size)
             THEN [raised |-> TRUE,
                   exception |-> [type |-> "InvalidPayload",
                                  message |-> "Object does not exist or size does not match"],
                   calls |-> Append(checked, Called("storage.verify_object", payload.oid)),
                   storage |-> st]
             ELSE [raised |-> FALSE, response |-> EmptyOk,
                   calls |-> Append(checked, Called("storage.verify_object", payload.oid)),
                   storage |-> st]

\* VerifyView.verify: what it returns or raises, what it called, in order, and
\* the storage it leaves.
verify(st, organization, repo, payload, granted) ==
    LET auth == check_authorization(granted, "read-meta")
        prefix == Prefix(organization, repo)
        checked == <<Called("_check_authorization", "read-meta")>>
    IN  IF auth.raised
        THEN [raised |-> TRUE, exception |-> auth.exception, calls |-> checked, storage |-> st]
        ELSE IF ~verify_object(st, prefix, payload.oid, payload.size)
             THEN [raised |-> TRUE,
                   exception |-> [type |-> "InvalidPayload",
                                  message |-> "Object does not exist or size does not match"],
                   calls |-> Append(checked, Called("storage.verify_object", payload.oid)),
                   storage |-> st]
             ELSE [raised |-> FALSE, response |-> EmptyOk,
                   calls |-> Append(checked, Called("storage.verify_object", payload.oid)),
                   storage |-> st]

\* put that stores the stream before it checks the authorization.
objects_put_before_check(st, organization, repo, oid, data_length, granted) ==
    LET auth == check_authorization(granted, "write")
        stored == put(st, Prefix(organization, repo), oid, data_length)
        called == <<Called("storage.put", oid), Called("_check_authorization", "write")>>
    IN  IF auth.raised
        THEN [raised |-> TRUE, exception |-> auth.exception, calls |-> called, storage |-> stored]
        ELSE [raised |-> FALSE, response |-> EmptyOk, calls |-> called, storage |-> stored]

\* put that answers 200 without handing the stream to the storage.
objects_put_discarding(st, organization, repo, oid, data_length, granted) ==
    LET auth == check_authorization(granted, "write")
        checked == <<Called("_check_authorization", "write")>>
    IN  IF auth.raised
        THEN [raised |-> TRUE, exception |-> auth.exception, calls |-> checked, storage |-> st]
        ELSE [raised |-> FALSE, response |-> EmptyOk, calls |-> checked, storage |-> st]

\* ObjectsView.put; data_length is the length of request.stream.
objects_put(st, organization, repo, oid, data_length, granted) ==
    LET auth == check_authorization(granted, "write")
        checked == <<Called("_check_authorization", "write")>>
    IN  IF auth.raised
        THEN [raised |-> TRUE, exception |-> auth.exception, calls |-> checked, storage |-> st]
        ELSE [raised |-> FALSE, response |-> EmptyOk,
              calls |-> Append(checked, Called("storage.put", oid)),
              storage |-> put(st, Prefix(organization, repo), oid, data_length)]

\* util.safe_filename
safe_filename(filename) == <<"safe_filename", filename>>

\* The headers ObjectsView.get builds from the query arguments; a missing
\* argument is NONE.
DispositionHeaders(filename, disposition) ==
    IF filename # NONE /\ disposition # NONE
    THEN [ContentDisposition |-> <<"attachment; filename=", safe_filename(filename)>>]
    ELSE IF disposition # NONE
         THEN [ContentDisposition |-> <<disposition>>]
         ELSE EmptyResponse

\* get that answers a missing object with a 404 response instead of raising.
objects_get_in_band(st, organization, repo, oid, filename, disposition, granted) ==
    LET auth == check_authorization(granted, "read")
        path == Prefix(organization, repo)
        headers == DispositionHeaders(filename, disposition)
        checked == <<Called("_check_authorization", "read")>>
    IN  IF auth.raised
        THEN [raised |-> TRUE, exception |-> auth.exception, calls |-> checked, storage |-> st]
        ELSE IF exists(st, path, oid)
             THEN [raised |-> FALSE,
                   response |-> [status |-> 200, body |-> get(st, path, oid),
                                 headers |-> [ContentType |-> get_mime_type(st, path, oid)] @@ headers],
                   calls |-> checked \o <<Called("storage.exists", oid), Called("storage.get", oid),
                                          Called("storage.get_mime_type", oid)>>,
                   storage |-> st]
             ELSE [raised |-> FALSE,
                   response |-> [status |-> 404, body |-> <<>>, headers |-> headers],
                   calls |-> Append(checked, Called("storage.exists", oid)), storage |-> st]

\* ObjectsView.get
objects_get(st, organization, repo, oid, filename, disposition, granted) ==
    LET auth == check_authorization(granted, "read")
        path == Prefix(organization, repo)
        headers == DispositionHeaders(filename, disposition)
        checked == <<Called("_check_authorization", "read")>>
    IN  IF auth.raised
        THEN [raised |-> TRUE, exception |-> auth.exception, calls |-> checked, storage |-> st]
        ELSE IF exists(st, path, oid)
             THEN [raised |-> FALSE,
                   response |-> [status |-> 200, body |-> get(st, path, oid),
                                 headers |-> [ContentType |-> get_mime_type(st, path, oid)] @@ headers],
                   calls |-> checked \o <<Called("storage.exists", oid), Called("storage.get", oid),
                                          Called("storage.get_mime_type", oid)>>,
                   storage |-> st]
             ELSE [raised |-> TRUE,
                   exception |-> [type |-> "NotFound", message |-> "The object was not found"],
                   calls |-> Append(checked, Called("storage.exists", oid)), storage |-> st]

(* ---------------------------------------------------------------------- *)
(* Transfer: state machine                                                 *)
(* ---------------------------------------------------------------------- *)

EmptyStorage == [k \in {} |-> 0]

\* No adapter has been constructed.
NoTransfer ==
    /\ storage = EmptyStorage
    /\ action_lifetime = NONE
    /\ outcome = NoCall

\* factory: an adapter over an empty storage.
InitTransfer ==
    /\ storage = EmptyStorage
    /\ action_lifetime \in ActionLifetimes
    /\ outcome = NoCall

\* What the call just before this upload returned, when that call was an
\* upload with the same arguments; <<>> otherwise.
SameUploadBefore(args) ==
    IF outcome.op = "upload" /\ outcome.args = args THEN <<outcome.result>> ELSE <<>>

\* An upload that drops the stored object whenever it is called.
Upload_dropping ==
    /\ \E organization \in TransferOrganizations, repo \in TransferRepos,
          oid \in TransferOids, size \in Sizes :
        LET args == [organization |-> organization, repo |-> repo, oid |-> oid, size |-> size]
        IN  /\ outcome' = [op |-> "upload", args |-> args, before |-> storage,
                           previous |-> SameUploadBefore(args),
                           result |-> upload(storage, action_lifetime, organization, repo, oid, size)]
            /\ storage' = [k \in DOMAIN storage \ {<<Prefix(organization, repo), oid>>} |-> storage[k]]
    /\ UNCHANGED action_lifetime
    /\ UNCHANGED <<varsIdentity, varsClients>>

Upload ==
    /\ \E organization \in TransferOrganizations, repo \in TransferRepos,
          oid \in TransferOids, size \in Sizes :
        LET args == [organization |-> organization, repo |-> repo, oid |-> oid, size |-> size]
        IN  outcome' = [op |-> "upload", args |-> args, before |-> storage,
                        previous |-> SameUploadBefore(args),
                        result |-> upload(storage, action_lifetime, organization, repo, oid, size)]
    /\ UNCHANGED <<storage, action_lifetime>>
    /\ UNCHANGED <<varsIdentity, varsClients>>

Download ==
    /\ \E organization \in TransferOrganizations, repo \in TransferRepos,
          oid \in TransferOids, size \in Sizes :
        \E action \in DownloadActionOutcomes(Prefix(organization, repo), oid, size, action_lifetime) :
            outcome' = [op |-> "download",
                        args |-> [organization |-> organization, repo |-> repo, oid |-> oid,
                                  size |-> size, action |-> action],
                        before |-> storage,
                        result |-> download(storage, action_lifetime, organization, repo, oid,
                                            size, action)]
    /\ UNCHANGED <<storage, action_lifetime>>
    /\ UNCHANGED <<varsIdentity, varsClients>>

Verify ==
    /\ \E organization \in TransferOrganizations, repo \in TransferRepos,
          oid \in TransferOids, size \in Sizes, granted \in GrantedSets :
        LET r == verify(storage, organization, repo, [oid |-> oid, size |-> size], granted)
        IN  /\ outcome' = [op |-> "verify",
                           args |-> [organization |-> organization, repo |-> repo, oid |-> oid,
                                     size |-> size, granted |-> granted],
                           before |-> storage,
                           result |-> r]
            /\ storage' = r.storage
    /\ UNCHANGED action_lifetime
    /\ UNCHANGED <<varsIdentity, varsClients>>

Put ==
    /\ \E organization \in TransferOrganizations, repo \in TransferRepos,
          oid \in TransferOids, data_length \in Sizes, granted \in GrantedSets :
        LET r == objects_put(storage, organization, repo, oid, data_length, granted)
        IN  /\ outcome' = [op |-> "put",
                           args |-> [organization |-> organization, repo |-> repo, oid |-> oid,
                                     data_length |-> data_length, granted |-> granted],
                           before |-> storage,
                           result |-> r]
            /\ storage' = r.storage
    /\ UNCHANGED action_lifetime
    /\ UNCHANGED <<varsIdentity, varsClients>>

Get ==
    /\ \E organization \in TransferOrganizations, repo \in TransferRepos, oid \in TransferOids,
          filename \in {NONE, "f.bin"}, disposition \in {NONE, "inline"}, granted \in GrantedSets :
        LET r == objects_get(storage, organization, repo, oid, filename, disposition, granted)
        IN  /\ outcome' = [op |-> "get",
                           args |-> [organization |-> organization, repo |-> repo, oid |-> oid,
                                     filename |-> filename, disposition |-> disposition,
                                     granted |-> granted],
                           before |-> storage,
                           result |-> r]
            /\ storage' = r.storage
    /\ UNCHANGED action_lifetime
    /\ UNCHANGED <<varsIdentity, varsClients>>

(* ---------------------------------------------------------------------- *)
(* Properties of the transfer adapter and the views                        *)
(* ---------------------------------------------------------------------- *)

\* The object the last call was about, in the storage the call found.
Target == <<Prefix(outcome.args.organization, outcome.args.repo), outcome.args.oid>>
WasStored == Target \in DOMAIN outcome.before
WasStoredWithSize == WasStored /\ outcome.before[Target] = outcome.args.size

HasKey(response, key) == key \in DOMAIN response

\* C2: upload answers an object that is absent or stored with another size
\* with an 'upload' and a 'verify' action and authenticated = true, and an
\* object stored with the requested size with neither 'actions' nor 'authenticated'.
C2_UploadDecision ==
    outcome.op = "upload" =>
        /\ ~outcome.result.raised
        /\ IF WasStoredWithSize
           THEN /\ ~HasKey(outcome.result.response, "actions")
                /\ ~HasKey(outcome.result.response, "authenticated")
           ELSE /\ HasKey(outcome.result.response, "actions")
                /\ {"upload", "verify"} \subseteq DOMAIN outcome.result.response.actions
                /\ HasKey(outcome.result.response, "authenticated")
                /\ outcome.result.response.authenticated = TRUE

\* upload asked for a transfer of an object that is stored with another size.
C2_Witness ==
    /\ outcome.op = "upload"
    /\ WasStored
    /\ ~WasStoredWithSize
    /\ HasKey(outcome.result.response, "actions")

\* C3: download of an object that is absent or stored with another size
\* raises nothing; its response carries the structured form of ObjectNotFound,
\* respectively InvalidObject, as 'error' and neither 'actions' nor 'authenticated'.
C3_DownloadReportsInBand ==
    (outcome.op = "download" /\ ~WasStoredWithSize) =>
        /\ ~outcome.result.raised
        /\ HasKey(outcome.result.response, "error")
        /\ outcome.result.response.error.code
              = (IF WasStored THEN "InvalidObject" ELSE "ObjectNotFound")
        /\ ~HasKey(outcome.result.response, "actions")
        /\ ~HasKey(outcome.result.response, "authenticated")

\* download of an absent object returned with the ObjectNotFound error in band.
C3_Witness ==
    /\ outcome.op = "download"
    /\ ~WasStored
    /\ ~outcome.result.raised
    /\ outcome.result.response.error.code = "ObjectNotFound"

\* C4: once its authorization check has passed, verify returns status 200
\* with an empty body exactly when the object is stored with the claimed size,
\* raises InvalidPayload otherwise, and leaves the storage as it found it.
C4_VerifyDecision ==
    (outcome.op = "verify" /\ "read-meta" \in outcome.args.granted) =>
        /\ IF WasStoredWithSize
           THEN /\ ~outcome.result.raised
                /\ outcome.result.response.status = 200
                /\ outcome.result.response.body = <<>>
           ELSE /\ outcome.result.raised
                /\ outcome.result.exception.type = "InvalidPayload"
        /\ storage = outcome.before

\* verify rejected an object that is stored with a size other than the claimed one.
C4_Witness ==
    /\ outcome.op = "verify"
    /\ "read-meta" \in outcome.args.granted
    /\ WasStored
    /\ ~WasStoredWithSize
    /\ outcome.result.raised

\* C9: no response of upload or download carries both 'error' and 'actions',
\* whether get_download_action returns an action or fails with a StorageError.
C9_ErrorExcludesActions ==
    (outcome.op \in {"upload", "download"} /\ ~outcome.result.raised) =>
        ~(HasKey(outcome.result.response, "error") /\ HasKey(outcome.result.response, "actions"))

\* get_download_action failed for a valid object and download reported the error alone.
C9_Witness ==
    /\ outcome.op = "download"
    /\ WasStoredWithSize
    /\ outcome.args.action.raised
    /\ HasKey(outcome.result.response, "error")
    /\ ~HasKey(outcome.result.response, "actions")

\* The response carries, as actions.download, the descriptor that
\* get_download_action returned, and authenticated = true.
CarriesReturnedAction ==
    /\ ~outcome.result.raised
    /\ ~outcome.args.action.raised
    /\ HasKey(outcome.result.response, "actions")
    /\ HasKey(outcome.result.response.actions, "download")
    /\ outcome.result.response.actions.download = outcome.args.action.value.actions.download
    /\ HasKey(outcome.result.response, "authenticated")
    /\ outcome.result.response.authenticated = TRUE

\* C10 as claimed: download of an object stored with the requested size
\* carries the descriptor get_download_action returned and authenticated = true.
C10_DownloadAction ==
    (outcome.op = "download" /\ WasStoredWithSize) => CarriesReturnedAction

\* C10 amended: it does so whenever get_download_action returns a non-empty
\* download descriptor.
C10_DownloadActionReturned ==
    (/\ outcome.op = "download"
     /\ WasStoredWithSize
     /\ ~outcome.args.action.raised
     /\ outcome.args.action.value.actions.download # EmptyResponse) => CarriesReturnedAction

\* download of a valid object handed on a non-empty descriptor.
C10_Witness ==
    /\ outcome.op = "download"
    /\ WasStoredWithSize
    /\ ~outcome.args.action.raised
    /\ outcome.args.action.value.actions.download # EmptyResponse
    /\ outcome.result.response.authenticated

\* C11: an upload call that repeats the call just before it, for an object
\* stored with the requested size, returns the same response as that call, and
\* no upload or download call changes the storage.
C11_UploadIdempotent ==
    /\ (outcome.op = "upload" /\ WasStoredWithSize /\ outcome.previous # <<>>) =>
            outcome.result = outcome.previous[1]
    /\ outcome.op \in {"upload", "download"} => storage = outcome.before

\* A second upload in a row for an object stored with the requested size
\* returned without actions.
C11_Witness ==
    /\ outcome.op = "upload"
    /\ WasStoredWithSize
    /\ outcome.previous # <<>>
    /\ ~HasKey(outcome.result.response, "actions")

\* What the token service was asked for when the header of an action was built.
Asked(action) == action.header.Authorization

\* C12 as claimed: each action upload issues carries a header asked for with
\* the lifetime the action announces as expires_in (action_lifetime for
\* 'upload', the verify lifetime for 'verify'), for the requested
\* organization, repo and oid.
C12_HeaderLifetimes ==
    (outcome.op = "upload" /\ ~outcome.result.raised
        /\ HasKey(outcome.result.response, "actions")) =>
        LET actions == outcome.result.response.actions
        IN  /\ actions.upload.expires_in = action_lifetime
            /\ Asked(actions.upload).lifetime = <<actions.upload.expires_in>>
            /\ Asked(actions.upload).actions = {"write"}
            /\ actions.verify.expires_in = VERIFY_LIFETIME
            /\ Asked(actions.verify).lifetime = <<actions.verify.expires_in>>
            /\ Asked(actions.verify).actions = {"verify"}
            /\ \A a \in {actions.upload, actions.verify} :
                /\ Asked(a).organization = outcome.args.organization
                /\ Asked(a).repo = outcome.args.repo
                /\ Asked(a).oid = outcome.args.oid

\* C13: once its READ check has passed, get raises NotFound for an object that
\* is not stored and otherwise returns status 200 with the object's stream and
\* the mime type the storage reports; download of an object that is not stored
\* raises nothing and carries 'error' in its response.
C13_MissingObject ==
    /\ (outcome.op = "get" /\ "read" \in outcome.args.granted) =>
            IF WasStored
            THEN /\ ~outcome.result.raised
                 /\ outcome.result.response.status = 200
                 /\ outcome.result.response.body.stream_of = Target
                 /\ outcome.result.response.headers.ContentType
                       = <<"mime-type", Target[1], Target[2]>>
            ELSE /\ outcome.result.raised
                 /\ outcome.result.exception.type = "NotFound"
    /\ (outcome.op = "download" /\ ~WasStored) =>
            /\ ~outcome.result.raised
            /\ HasKey(outcome.result.response, "error")

\* An authorized get of an object that is not stored raised NotFound.
C13_Witness ==
    /\ outcome.op = "get"
    /\ "read" \in outcome.args.granted
    /\ ~WasStored
    /\ outcome.result.raised
    /\ outcome.result.exception.type = "NotFound"

\* The permission each view entry point has to check.
RequiredPermission(op) ==
    CASE op = "put" -> "write"
      [] op = "get" -> "read"
      [] op = "verify" -> "read-meta"

\* C16: put, get and verify first check WRITE, READ, respectively READ_META;
\* they call the storage only after that check has passed, and a request whose
\* check fails is refused with the storage untouched and unread, whatever the
\* storage holds.
C16_AuthorizationFirst ==
    outcome.op \in {"put", "get", "verify"} =>
        LET calls == outcome.result.calls
            required == RequiredPermission(outcome.op)
        IN  /\ Len(calls) >= 1
            /\ calls[1] = Called("_check_authorization", required)
            /\ \A i \in 2..Len(calls) :
                /\ calls[i].call # "_check_authorization"
                /\ required \in outcome.args.granted
            /\ required \notin outcome.args.granted =>
                /\ Len(calls) = 1
                /\ outcome.result.raised
                /\ outcome.result.exception.type = "Forbidden"
                /\ storage = outcome.before

\* A put without the WRITE permission on an object that is stored was refused
\* before any storage call.
C16_Witness ==
    /\ outcome.op = "put"
    /\ "write" \notin outcome.args.granted
    /\ outcome.args.granted # {}
    /\ WasStored
    /\ outcome.result.raised
    /\ Len(outcome.result.calls) = 1
    /\ storage = outcome.before

(* ---------------------------------------------------------------------- *)
(* Protocol: one client and one object                                     *)
(* ---------------------------------------------------------------------- *)

\* The object the clients transfer.
ObjectOrganization == "acme"
ObjectRepo == "widgets"
ObjectOid == "x"
ObjectKey == <<Prefix(ObjectOrganization, ObjectRepo), ObjectOid>>

\* The storage the clients find: without the object, or with it at some size.
FoundStorages ==
    {EmptyStorage} \cup
    {put(EmptyStorage, Prefix(ObjectOrganization, ObjectRepo), ObjectOid, n) : n \in Sizes}

Phases == {"Unknown", "NeedsUpload", "AlreadyPresent", "Uploaded", "Verified", "Rejected"}

InitProtocol ==
    /\ InitIdentity
    /\ storage \in FoundStorages
    /\ action_lifetime \in ActionLifetimes
    /\ outcome = NoCall
    /\ declared \in Sizes
    /\ client = [phase |-> "Unknown", from |-> "Unknown", sent |-> <<>>,
                 dirty |-> FALSE, retried |-> FALSE]
    /\ clients = NoCall

\* The client requests a batch upload of the object: upload(). With actions in
\* the response it has to transfer the object, without it has nothing to do.
ClientUpload ==
    /\ client.phase \in {"Unknown", "Rejected", "Verified", "AlreadyPresent"}
    /\ LET r == upload(storage, action_lifetime, ObjectOrganization, ObjectRepo, ObjectOid,
                       declared)
       IN  /\ outcome' = [op |-> "upload",
                          args |-> [organization |-> ObjectOrganization, repo |-> ObjectRepo,
                                    oid |-> ObjectOid, size |-> declared],
                          before |-> storage, previous |-> <<>>, result |-> r]
           /\ client' = [client EXCEPT
                 !.from = client.phase,
                 !.sent = <<>>,
                 !.retried = client.retried \/ client.phase = "Rejected",
                 !.phase = IF r.raised THEN client.phase
                           ELSE IF HasKey(r.response, "actions") THEN "NeedsUpload"
                           ELSE IF client.phase = "Verified" THEN "Verified"
                           ELSE "AlreadyPresent"]
    /\ UNCHANGED <<storage, action_lifetime, declared, clients>>
    /\ UNCHANGED varsIdentity

\* The client follows the upload action: PUT of data_length bytes to the storage
\* URL, as an identity holding granted.
ClientPut(data_length, granted) ==
    /\ client.phase = "NeedsUpload"
    /\ LET r == objects_put(storage, ObjectOrganization, ObjectRepo, ObjectOid, data_length,
                            granted)
       IN  /\ outcome' = [op |-> "put",
                          args |-> [organization |-> ObjectOrganization, repo |-> ObjectRepo,
                                    oid |-> ObjectOid, data_length |-> data_length,
                                    granted |-> granted],
                          before |-> storage, result |-> r]
           /\ storage' = r.storage
           /\ client' = IF r.raised
                        THEN [client EXCEPT !.from = client.phase]
                        ELSE [client EXCEPT !.from = client.phase, !.phase = "Uploaded",
                                            !.sent = <<data_length>>, !.dirty = FALSE]
    /\ UNCHANGED <<action_lifetime, declared, clients>>
    /\ UNCHANGED varsIdentity

\* The client follows the verify action: verify() with the declared size.
ClientVerify(granted) ==
    /\ client.phase = "Uploaded"
    /\ LET r == verify(storage, ObjectOrganization, ObjectRepo,
                       [oid |-> ObjectOid, size |-> declared], granted)
       IN  /\ outcome' = [op |-> "verify",
                          args |-> [organization |-> ObjectOrganization, repo |-> ObjectRepo,
                                    oid |-> ObjectOid, size |-> declared, granted |-> granted],
                          before |-> storage, result |-> r]
           /\ storage' = r.storage
           /\ client' = [client EXCEPT
                 !.from = client.phase,
                 !.phase = IF ~r.raised THEN "Verified"
                           ELSE IF r.exception.type = "InvalidPayload" THEN "Rejected"
                           ELSE client.phase]
    /\ UNCHANGED <<action_lifetime, declared, clients>>
    /\ UNCHANGED varsIdentity

\* Another PUT to the object after it was verified.
OtherPut ==
    /\ client.phase = "Verified"
    /\ \E data_length \in Sizes :
        LET r == objects_put(storage, ObjectOrganization, ObjectRepo, ObjectOid, data_length,
                             {"write"})
        IN  /\ outcome' = [op |-> "put",
                           args |-> [organization |-> ObjectOrganization, repo |-> ObjectRepo,
                                     oid |-> ObjectOid, data_length |-> data_length,
                                     granted |-> {"write"}],
                           before |-> storage, result |-> r]
            /\ storage' = r.storage
    /\ client' = [client EXCEPT !.from = client.phase, !.dirty = TRUE]
    /\ UNCHANGED <<action_lifetime, declared, clients>>
    /\ UNCHANGED varsIdentity

\* The client follows the issued upload action with content of the declared size.
FollowUpload == ClientPut(declared, {"write"})

\* The client follows the issued verify action.
FollowVerify == ClientVerify({"read-meta"})

(* ---------------------------------------------------------------------- *)
(* Protocol: claims                                                        *)
(* ---------------------------------------------------------------------- *)

IssuesActions ==
    /\ ~outcome.result.raised
    /\ HasKey(outcome.result.response, "actions")
    /\ DOMAIN outcome.result.response.actions = {"upload", "verify"}

IssuesNothing ==
    /\ ~outcome.result.raised
    /\ ~HasKey(outcome.result.response, "actions")

\* The state model, as far as one state shows it.
C14_StateModel ==
    /\ client.phase \in Phases
    /\ (outcome.op = "upload" /\ client.from = "Unknown") =>
          \/ client.phase = "NeedsUpload" /\ IssuesActions
          \/ client.phase = "AlreadyPresent" /\ IssuesNothing
    /\ (outcome.op = "verify" /\ "read-meta" \in outcome.args.granted
            /\ client.sent = <<declared>>) =>
          ~outcome.result.raised /\ client.phase = "Verified"
    /\ (outcome.op = "upload" /\ client.from = "Verified" /\ ~client.dirty) =>
          IssuesNothing /\ client.phase = "Verified"
    /\ (outcome.op = "verify" /\ "read-meta" \in outcome.args.granted
            /\ client.sent # <<declared>>) =>
          /\ outcome.result.raised
          /\ outcome.result.exception.type = "InvalidPayload"
          /\ client.phase = "Rejected"
    /\ (outcome.op = "upload" /\ client.from = "Rejected") =>
          client.phase = "NeedsUpload" /\ IssuesActions

\* C14: every run follows the state model (upload decides NeedsUpload with
\* actions or AlreadyPresent without; verify after an authorized PUT of the
\* declared size succeeds and later uploads issue nothing while no other PUT
\* intervenes; verify after a PUT of another size is rejected and the next
\* upload issues upload and verify actions again), and a client that keeps
\* following the issued actions with content of the declared size gets the
\* object from NeedsUpload to Verified.
C14_Protocol ==
    /\ []C14_StateModel
    /\ (client.phase = "NeedsUpload") ~> (client.phase = "Verified")

\* The object was rejected, requested again, and then verified.
C14_Witness ==
    /\ client.phase = "Verified"
    /\ client.retried
    /\ outcome.op = "verify"

(* ---------------------------------------------------------------------- *)
(* Two concurrent clients and one object                                   *)
(* ---------------------------------------------------------------------- *)

Clients == {"a", "b"}

\* A client about to call upload().
Starting == [pc |-> "upload", response |-> <<>>, raised |-> <<>>, stored |-> FALSE,
             verified |-> "not called"]

InitConcurrent ==
    /\ InitIdentity
    /\ storage \in FoundStorages
    /\ action_lifetime \in ActionLifetimes
    /\ outcome = NoCall
    /\ declared \in Sizes
    /\ client = NoCall
    /\ clients = [c \in Clients |-> Starting]

\* What upload() returns to the client once it has decided.
Transfer == UploadActions(action_lifetime, ObjectOrganization, ObjectRepo, ObjectOid)
                @@ [oid |-> ObjectOid, size |-> declared]
NoTransferNeeded == [oid |-> ObjectOid, size |-> declared]

\* upload() that reads the size without asking whether the object exists.
StepExists_unchecked(c) ==
    /\ clients[c].pc = "upload"
    /\ clients' = [clients EXCEPT ![c].pc = "get_size"]
    /\ UNCHANGED <<storage, action_lifetime, outcome, declared, client>>
    /\ UNCHANGED varsIdentity

\* upload(), first read: storage.exists(prefix, oid). Without the object the
\* condition is decided and the actions are returned.
StepExists(c) ==
    /\ clients[c].pc = "upload"
    /\ clients' = IF ~exists(storage, Prefix(ObjectOrganization, ObjectRepo), ObjectOid)
                  THEN [clients EXCEPT ![c].pc = "put", ![c].response = <<Transfer>>]
                  ELSE [clients EXCEPT ![c].pc = "get_size"]
    /\ UNCHANGED <<storage, action_lifetime, outcome, declared, client>>
    /\ UNCHANGED varsIdentity

\* upload(), second read: storage.get_size(prefix, oid) != size.
StepGetSize(c) ==
    /\ clients[c].pc = "get_size"
    /\ LET stored == get_size(storage, Prefix(ObjectOrganization, ObjectRepo), ObjectOid)
       IN  clients' =
               IF stored.raised
               THEN [clients EXCEPT ![c].pc = "done", ![c].raised = <<stored.exception>>]
               ELSE IF stored.value # declared
                    THEN [clients EXCEPT ![c].pc = "put", ![c].response = <<Transfer>>]
                    ELSE [clients EXCEPT ![c].pc = "done", ![c].response = <<NoTransferNeeded>>]
    /\ UNCHANGED <<storage, action_lifetime, outcome, declared, client>>
    /\ UNCHANGED varsIdentity

\* The client follows its upload action: PUT of content of the declared size.
StepPut(c) ==
    /\ clients[c].pc = "put"
    /\ LET r == objects_put(storage, ObjectOrganization, ObjectRepo, ObjectOid, declared,
                            {"write"})
       IN  /\ storage' = r.storage
           /\ clients' = IF r.raised
                         THEN [clients EXCEPT ![c].pc = "done", ![c].raised = <<r.exception>>]
                         ELSE [clients EXCEPT ![c].pc = "verify", ![c].stored = TRUE]
    /\ UNCHANGED <<action_lifetime, outcome, declared, client>>
    /\ UNCHANGED varsIdentity

\* The client follows its verify action: verify() with the declared size.
StepVerify(c) ==
    /\ clients[c].pc = "verify"
    /\ LET r == verify(storage, ObjectOrganization, ObjectRepo,
                       [oid |-> ObjectOid, size |-> declared], {"read-meta"})
       IN  /\ storage' = r.storage
           /\ clients' =
                 IF ~r.raised
                 THEN [clients EXCEPT ![c].pc = "done", ![c].verified = "accepted"]
                 ELSE IF r.exception.type = "InvalidPayload"
                      THEN [clients EXCEPT ![c].pc = "done", ![c].verified = "rejected"]
                      ELSE [clients EXCEPT ![c].pc = "done", ![c].raised = <<r.exception>>]
    /\ UNCHANGED <<action_lifetime, outcome, declared, client>>
    /\ UNCHANGED varsIdentity

(* ---------------------------------------------------------------------- *)
(* Two concurrent clients: claims                                          *)
(* ---------------------------------------------------------------------- *)

BothFinished == \A c \in Clients : clients[c].pc = "done"

\* C15: under every interleaving of the two clients' reads, PUTs and verify
\* calls, no call raises an unexpected error, no verify after the caller's own
\* PUT is rejected, and once both clients have finished the object is stored
\* at the declared size and a further upload() returns no actions.
C15_TwoClients ==
    /\ \A c \in Clients : clients[c].raised = <<>>
    /\ \A c \in Clients : clients[c].stored => clients[c].verified # "rejected"
    /\ BothFinished =>
          /\ ObjectKey \in DOMAIN storage
          /\ storage[ObjectKey] = declared
          /\ LET further == upload(storage, action_lifetime, ObjectOrganization, ObjectRepo,
                                   ObjectOid, declared)
             IN  ~further.raised /\ ~HasKey(further.response, "actions")

\* Both clients were told to transfer the object, both stored it and both had
\* it verified.
C15_Witness ==
    /\ BothFinished
    /\ \A c \in Clients : clients[c].stored /\ clients[c].verified = "accepted"

vars == <<varsIdentity, varsTransfer, varsClients>>

\* One identity, no adapter.
Init == InitIdentity /\ NoTransfer /\ NoClients
NextIdentity == Allow \/ IsAuthorized
SpecIdentity == Init /\ [][NextIdentity]_vars

\* One adapter and its views over one storage; the identity holds no grant.
InitAdapter == InitIdentity /\ InitTransfer /\ NoClients
NextTransfer == Upload \/ Download \/ Verify \/ Put \/ Get
SpecTransfer == InitAdapter /\ [][NextTransfer]_vars

\* One client following the protocol for one object.
NextProtocol ==
    \/ ClientUpload
    \/ \E data_length \in Sizes, granted \in GrantedSets : ClientPut(data_length, granted)
    \/ \E granted \in GrantedSets : ClientVerify(granted)
    \/ OtherPut
SpecProtocol == InitProtocol /\ [][NextProtocol]_vars

\* The client keeps requesting, and keeps following the issued actions with
\* content of the declared size.
FairProtocol ==
    /\ SpecProtocol
    /\ WF_vars(ClientUpload)
    /\ SF_vars(FollowUpload)
    /\ WF_vars(FollowVerify)

\* Two clients, each running upload, PUT and verify for the same object.
NextConcurrent ==
    \E c \in Clients : StepExists(c) \/ StepGetSize(c) \/ StepPut(c) \/ StepVerify(c)
SpecConcurrent == InitConcurrent /\ [][NextConcurrent]_vars
====
